---- MODULE Spec2Model ----
(***************************************************************************)
(* Coin selection (rust_sandbox): the cost model, the waste evaluator, the *)
(* three heuristic selectors of main.rs (FIFO, Single Random Draw,         *)
(* Lowest-Larger) and the Branch-and-Bound selector in its three versions  *)
(* (main.rs, main2.rs, barebones.rs).                                      *)
(*                                                                         *)
(* Each selector call is a run of the state machine: Init draws the        *)
(* candidates and the options, a select_coin_* action runs one selector to *)
(* its result.  The recursive bnb search runs one invocation per step on   *)
(* an explicit call stack, so that the shared selected_inputs stack, the   *)
(* tries budget and the random branch order are all visible in the state.  *)
(***************************************************************************)
EXTENDS Integers, Sequences, FiniteSets, TLC

(***************************************************************************)
(* f32 arithmetic.  A non-negative f32 is the record [m, k] standing for   *)
(* m / 2^k with a mantissa m < 2^24 (k may be negative).  Integers below   *)
(* 2^24 are f32 values with k = 0.  Products are rounded to 24 significant *)
(* bits, ties to even, as the hardware does.                               *)
(***************************************************************************)
RECURSIVE Pow2(_)
Pow2(n) == IF n <= 0 THEN 1 ELSE 2 * Pow2(n - 1)

RECURSIVE BitLen(_)
BitLen(n) == IF n = 0 THEN 0 ELSE 1 + BitLen(n \div 2)

CeilDiv(a, b) == (a + b - 1) \div b

Max(a, b) == IF a >= b THEN a ELSE b

\* Width of the f32 significand.
MantissaBits == 24

\* n / 2^k rounded to MantissaBits significant bits, ties to even (n < 2^31).
F32Round(n, k) ==
    LET s == BitLen(n) - MantissaBits
    IN  IF s <= 0 THEN [m |-> n, k |-> k]
        ELSE LET q    == n \div Pow2(s)
                 rem  == n % Pow2(s)
                 half == Pow2(s - 1)
                 up   == rem > half \/ (rem = half /\ q % 2 = 1)
             IN  [m |-> IF up THEN q + 1 ELSE q, k |-> k - s]

\* (w as f32) * x for an integer w < 2^12: the exact product w * x.m is held
\* in two limbs of 12 bits (hi * 2^12 + lo), so that no intermediate value
\* leaves 32 bits, and then rounded.
F32MulNat(w, x) ==
    LET limb == 12
        base == Pow2(limb)
        lof  == w * (x.m % base)
        lo   == lof % base
        hi   == w * (x.m \div base) + lof \div base
        s    == BitLen(hi) + limb - MantissaBits
    IN  IF s <= 0 THEN [m |-> hi * base + lo, k |-> x.k]
        ELSE LET q    == hi * Pow2(limb - s) + lo \div Pow2(s)
                 rem  == lo % Pow2(s)
                 half == Pow2(s - 1)
                 up   == rem > half \/ (rem = half /\ q % 2 = 1)
             IN  [m |-> IF up THEN q + 1 ELSE q, k |-> x.k - s]

\* x.ceil() as u64, for x >= 0
F32Ceil(x) == IF x.k >= 0 THEN CeilDiv(x.m, Pow2(x.k)) ELSE x.m * Pow2(0 - x.k)

\* a < b on non-negative f32 values
F32Less(a, b) ==
    LET K == Max(a.k, b.k)
    IN  a.m * Pow2(K - a.k) < b.m * Pow2(K - b.k)

\* a - b for f32 values a >= b >= 0
F32Sub(a, b) ==
    LET K == Max(a.k, b.k)
    IN  F32Round(a.m * Pow2(K - a.k) - b.m * Pow2(K - b.k), K)

\* ((n as f32) - y).ceil() as u64, for an integer n < 2^24 and an f32 y >= 0
\* with y.k >= 0.  A negative difference casts to 0 (`as u64` saturates).
\* The difference is I + F / 2^k; its fraction is rounded to the bits the
\* integer part leaves free, and the ceiling adds one when a fraction is left.
F32CeilNatMinus(n, y) ==
    LET yi == y.m \div Pow2(y.k)
        yf == y.m % Pow2(y.k)
        I  == IF yf = 0 THEN n - yi ELSE n - yi - 1
        F  == IF yf = 0 THEN 0 ELSE Pow2(y.k) - yf
        fb == MantissaBits - BitLen(I)
        Fr == IF y.k <= fb THEN F
              ELSE LET s    == y.k - fb
                       q    == F \div Pow2(s)
                       rem  == F % Pow2(s)
                       half == Pow2(s - 1)
                   IN  IF rem > half \/ (rem = half /\ q % 2 = 1) THEN q + 1 ELSE q
    IN  IF I < 0 THEN 0
        ELSE IF I = 0 THEN (IF F > 0 THEN 1 ELSE 0)
        ELSE I + (IF Fr > 0 THEN 1 ELSE 0)

(***************************************************************************)
(* Cost model                                                              *)
(***************************************************************************)
calculate_fee(weight, rate) == F32Ceil(F32MulNat(weight, rate))

\* Mutant of effective_value: a plain subtraction, which wraps below zero
effective_value_Unsaturated(output, feerate) ==
    output.value - calculate_fee(output.weight, feerate)

\* value.saturating_sub(fee)
effective_value(output, feerate) ==
    LET fee == calculate_fee(output.weight, feerate)
    IN  IF output.value >= fee THEN output.value - fee ELSE 0


(***************************************************************************)
(* Data model.  An OutputGroup is [value, weight, creation_sequence]; the  *)
(* fields input_count and is_segwit are read by no selector's decision.    *)
(* Option<T> is <<>> (None) or <<x>> (Some(x)).  Candidate indices are     *)
(* 0-based as in the source: At(inputs, i) is inputs[i].                   *)
(***************************************************************************)
None == <<>>

Some(x) == <<x>>

At(s, i) == s[i + 1]

Indices(s) == 0 .. (Len(s) - 1)

\* acc + inputs[i].value folded over a list of indices
RECURSIVE SumValue(_, _)
SumValue(inputs, sel) ==
    IF sel = <<>> THEN 0
    ELSE At(inputs, Head(sel)).value + SumValue(inputs, Tail(sel))

RECURSIVE SumWeight(_, _)
SumWeight(inputs, sel) ==
    IF sel = <<>> THEN 0
    ELSE At(inputs, Head(sel)).weight + SumWeight(inputs, Tail(sel))

\* slice::sort_by_key is a stable sort: the 0-based indices of `keys` in
\* ascending key order, equal keys in their original order.
SortedByKey(keys) ==
    LET n == Len(keys)
        Rank(i) == Cardinality({j \in 0 .. (n - 1) :
                       \/ At(keys, j) < At(keys, i)
                       \/ (At(keys, j) = At(keys, i) /\ j < i)})
    IN  [p \in 1 .. n |-> CHOOSE i \in 0 .. (n - 1) : Rank(i) = p - 1]

\* Ord of Option<u32>: None sorts before every Some
OptionKey(o) == IF o = None THEN -1 ELSE o[1]

(***************************************************************************)
(* Waste evaluator.  The result is [waste, underflow]: `underflow` says    *)
(* that the u64 subtraction of the excess term went below zero (a panic in *)
(* a build with overflow checks, a wrap-around otherwise); `waste` is then *)
(* the wrapped value modulo 2^64, written as the negative number it wraps. *)
(***************************************************************************)
\* Mutant of calculate_waste: the ToDrain test is inverted
calculate_waste_InvertedStrategy(inputs, selected_inputs, options, accumulated_value, accumulated_weight, estimated_fee) ==
    LET long_term ==
            IF options.long_term_feerate = None THEN 0
            ELSE F32CeilNatMinus(estimated_fee,
                     F32MulNat(accumulated_weight,
                         F32MulNat(Len(selected_inputs), options.long_term_feerate[1])))
        excess ==
            IF options.excess_strategy = "ToDrain"
            THEN accumulated_value - options.target_value - estimated_fee
            ELSE options.drain_cost
    IN  [waste |-> long_term + excess, underflow |-> excess < 0]

\* main.rs and barebones.rs
calculate_waste(inputs, selected_inputs, options, accumulated_value, accumulated_weight, estimated_fee) ==
    LET long_term ==
            IF options.long_term_feerate = None THEN 0
            ELSE F32CeilNatMinus(estimated_fee,
                     F32MulNat(accumulated_weight,
                         F32MulNat(Len(selected_inputs), options.long_term_feerate[1])))
        excess ==
            IF options.excess_strategy # "ToDrain"
            THEN accumulated_value - options.target_value - estimated_fee
            ELSE options.drain_cost
    IN  [waste |-> long_term + excess, underflow |-> excess < 0]

\* main2.rs
calculate_waste_main2(inputs, selected_inputs, options, accumulated_value, accumulated_weight, estimated_fee) ==
    LET long_term ==
            IF options.long_term_feerate = None THEN 0
            ELSE IF F32Less(options.target_feerate, options.long_term_feerate[1]) THEN 0
            ELSE F32Ceil(F32MulNat(accumulated_weight,
                     F32Sub(options.target_feerate, options.long_term_feerate[1])))
        excess ==
            IF options.excess_strategy # "ToDrain"
            THEN accumulated_value - (options.target_value + estimated_fee)
            ELSE options.drain_cost
    IN  [waste |-> long_term + excess, underflow |-> excess < 0]

(***************************************************************************)
(* Results.  A call ends in Ok(SelectionOutput), Err(SelectionError) or a  *)
(* panic.  The record also keeps the arguments handed to calculate_waste.  *)
(***************************************************************************)
NoResult ==
    [status |-> "None", algo |-> "", error |-> "", selected_inputs |-> <<>>,
     waste |-> 0, accumulated_value |-> 0, accumulated_weight |-> 0,
     estimated_fee |-> 0]

ErrResult(algo, error) ==
    [NoResult EXCEPT !.status = "Err", !.algo = algo, !.error = error]

PanicResult(algo) == [NoResult EXCEPT !.status = "Panic", !.algo = algo]

\* The outcomes of `Ok(SelectionOutput { selected_inputs, waste })` given the
\* evaluated waste w: the subtraction underflow panics or wraps, by build.
OkResults(algo, selected_inputs, w, accumulated_value, accumulated_weight, estimated_fee) ==
    LET ok == [status |-> "Ok", algo |-> algo, error |-> "",
               selected_inputs |-> selected_inputs, waste |-> w.waste,
               accumulated_value |-> accumulated_value,
               accumulated_weight |-> accumulated_weight,
               estimated_fee |-> estimated_fee]
    IN  IF w.underflow THEN {PanicResult(algo), ok} ELSE {ok}


(***************************************************************************)
(* Heuristic selectors (main.rs).  Each sweep is a loop over a working     *)
(* list of candidate indices; the loop state is the record                 *)
(* [accumulated_value, accumulated_weight, selected_inputs, estimated_fee].*)
(***************************************************************************)
SweepStart ==
    [accumulated_value |-> 0, accumulated_weight |-> 0, selected_inputs |-> <<>>,
     estimated_fee |-> 0]

\* Mutant of Reached: the test is against target_value alone
ReachedTargetOnly(options, accumulated_value, estimated_fee) ==
    accumulated_value >= options.target_value

\* Mutant of Reached: the estimated fee is left out of the threshold
ReachedIgnoringFee(options, accumulated_value, estimated_fee) ==
    accumulated_value >= options.target_value + options.min_drain_value
                           + options.min_absolute_fee

\* The heuristics' stop test: accumulated_value >= target_value + min_drain_value
\* + estimated_fee.max(min_absolute_fee)
Reached(options, accumulated_value, estimated_fee) ==
    accumulated_value >= options.target_value + options.min_drain_value
                           + Max(estimated_fee, options.min_absolute_fee)

\* select_coin_fifo's loop: the fee is taken from the weight accumulated BEFORE
\* the candidate at hand is added, the stop test comes first, the add second.
RECURSIVE FifoLoop(_, _, _, _)
FifoLoop(inputs, options, order, st) ==
    IF order = <<>> THEN st
    ELSE LET fee == calculate_fee(st.accumulated_weight, options.target_feerate)
             fst == [st EXCEPT !.estimated_fee = fee]
         IN  IF Reached(options, st.accumulated_value, fee) THEN fst
             ELSE FifoLoop(inputs, options, Tail(order),
                     [fst EXCEPT
                        !.accumulated_value = @ + At(inputs, Head(order)).value,
                        !.accumulated_weight = @ + At(inputs, Head(order)).weight,
                        !.selected_inputs = Append(@, Head(order))])

\* Mutant of AddThenTestLoop: the fee is taken before the candidate's weight is
\* added, as select_coin_fifo does.
RECURSIVE AddThenTestLoopStaleFee(_, _, _, _)
AddThenTestLoopStaleFee(inputs, options, order, st) ==
    IF order = <<>> THEN st
    ELSE LET w   == st.accumulated_weight + At(inputs, Head(order)).weight
             v   == st.accumulated_value + At(inputs, Head(order)).value
             fee == calculate_fee(st.accumulated_weight, options.target_feerate)
             nst == [accumulated_value |-> v, accumulated_weight |-> w,
                     selected_inputs |-> Append(st.selected_inputs, Head(order)),
                     estimated_fee |-> fee]
         IN  IF Reached(options, v, fee) THEN nst
             ELSE AddThenTestLoopStaleFee(inputs, options, Tail(order), nst)

\* Mutant of AddThenTestLoop: the stop test is missing, every candidate of the
\* working list is accumulated
RECURSIVE AddThenTestLoopNoBreak(_, _, _, _)
AddThenTestLoopNoBreak(inputs, options, order, st) ==
    IF order = <<>> THEN st
    ELSE LET w   == st.accumulated_weight + At(inputs, Head(order)).weight
             v   == st.accumulated_value + At(inputs, Head(order)).value
             fee == calculate_fee(w, options.target_feerate)
             nst == [accumulated_value |-> v, accumulated_weight |-> w,
                     selected_inputs |-> Append(st.selected_inputs, Head(order)),
                     estimated_fee |-> fee]
         IN  AddThenTestLoopNoBreak(inputs, options, Tail(order), nst)

\* The loop of select_coin_srd and of both phases of select_coin_lowestlarger:
\* add the candidate, take the fee of the weight accumulated so far, then test.
RECURSIVE AddThenTestLoop(_, _, _, _)
AddThenTestLoop(inputs, options, order, st) ==
    IF order = <<>> THEN st
    ELSE LET w   == st.accumulated_weight + At(inputs, Head(order)).weight
             v   == st.accumulated_value + At(inputs, Head(order)).value
             fee == calculate_fee(w, options.target_feerate)
             nst == [accumulated_value |-> v, accumulated_weight |-> w,
                     selected_inputs |-> Append(st.selected_inputs, Head(order)),
                     estimated_fee |-> fee]
         IN  IF Reached(options, v, fee) THEN nst
             ELSE AddThenTestLoop(inputs, options, Tail(order), nst)

\* Mutant of SweepResults: the error the doc comments of the heuristics name
SweepResultsNoSolutionFound(algo, inputs, options, st) ==
    IF ~Reached(options, st.accumulated_value, st.estimated_fee)
    THEN {ErrResult(algo, "NoSolutionFound")}
    ELSE OkResults(algo, st.selected_inputs,
             calculate_waste(inputs, st.selected_inputs, options,
                 st.accumulated_value, st.accumulated_weight, st.estimated_fee),
             st.accumulated_value, st.accumulated_weight, st.estimated_fee)

\* The end of every heuristic: Err(InsufficientFunds) below the threshold,
\* Ok with the waste of the sweep otherwise.
SweepResults(algo, inputs, options, st) ==
    IF ~Reached(options, st.accumulated_value, st.estimated_fee)
    THEN {ErrResult(algo, "InsufficientFunds")}
    ELSE OkResults(algo, st.selected_inputs,
             calculate_waste(inputs, st.selected_inputs, options,
                 st.accumulated_value, st.accumulated_weight, st.estimated_fee),
             st.accumulated_value, st.accumulated_weight, st.estimated_fee)

\* Mutant of FifoOrder: the sort is missing, the sweep follows the list
FifoOrderUnsorted(inputs) == [p \in 1 .. Len(inputs) |-> p - 1]

FifoOrder(inputs) ==
    SortedByKey([i \in 1 .. Len(inputs) |-> OptionKey(inputs[i].creation_sequence)])

FifoResults(inputs, options) ==
    SweepResults("fifo", inputs, options,
        FifoLoop(inputs, options, FifoOrder(inputs), SweepStart))

\* Every ordering of a set of indices
RECURSIVE Orderings(_)
Orderings(S) ==
    IF S = {} THEN {<<>>}
    ELSE UNION {{<<x>> \o p : p \in Orderings(S \ {x})} : x \in S}

\* Mutant of Shuffles: the shuffle is missing, the draw is the list as given
ShufflesNothing(inputs) == {[p \in 1 .. Len(inputs) |-> p - 1]}

\* SliceRandom::shuffle: every ordering of the indices can be drawn
Shuffles(inputs) == Orderings(Indices(inputs))

SrdResults(algo, inputs, options, randomized_inputs) ==
    SweepResults(algo, inputs, options,
        AddThenTestLoop(inputs, options, randomized_inputs, SweepStart))

\* slice::partition_point: the binary search of the standard library over the
\* positions left .. right - 1; pred[p + 1] is the predicate at position p.
RECURSIVE PartitionPoint(_, _, _)
PartitionPoint(pred, left, right) ==
    IF left >= right THEN left
    ELSE LET mid == left + (right - left) \div 2
         IN  IF At(pred, mid)
             THEN PartitionPoint(pred, mid + 1, right)
             ELSE PartitionPoint(pred, left, mid)

\* Mutant of LowestLargerOrder: the sort is missing
LowestLargerOrderUnsorted(inputs, options) == [p \in 1 .. Len(inputs) |-> p - 1]

LowestLargerOrder(inputs, options) ==
    SortedByKey([i \in 1 .. Len(inputs) |->
                    effective_value(inputs[i], options.target_feerate)])

LowestLargerIndex(inputs, options) ==
    LET target == options.target_value + options.min_drain_value
        SmallerOrEqual(i) ==
            At(inputs, i).value
                <= target + calculate_fee(At(inputs, i).weight, options.target_feerate)
        order == LowestLargerOrder(inputs, options)
    IN  PartitionPoint([p \in 1 .. Len(order) |-> SmallerOrEqual(order[p])], 0, Len(order))

Reverse(s) == [i \in 1 .. Len(s) |-> s[Len(s) + 1 - i]]

\* Mutant of LowestLargerResults: the second phase walks the whole sorted list
\* (the skip(index) is missing)
LowestLargerResultsNoSkip(inputs, options) ==
    LET order  == LowestLargerOrder(inputs, options)
        index  == LowestLargerIndex(inputs, options)
        phase1 == AddThenTestLoop(inputs, options,
                      Reverse(SubSeq(order, 1, index)), SweepStart)
        phase2 == IF ~Reached(options, phase1.accumulated_value, phase1.estimated_fee)
                  THEN AddThenTestLoop(inputs, options, order, phase1)
                  ELSE phase1
    IN  SweepResults("lowestlarger", inputs, options, phase2)

\* Mutant of LowestLargerResults: the first phase walks the smaller-or-equal
\* group upwards (the rev() is missing)
LowestLargerResultsNoRev(inputs, options) ==
    LET order  == LowestLargerOrder(inputs, options)
        index  == LowestLargerIndex(inputs, options)
        phase1 == AddThenTestLoop(inputs, options, SubSeq(order, 1, index), SweepStart)
        phase2 == IF ~Reached(options, phase1.accumulated_value, phase1.estimated_fee)
                  THEN AddThenTestLoop(inputs, options,
                           SubSeq(order, index + 1, Len(order)), phase1)
                  ELSE phase1
    IN  SweepResults("lowestlarger", inputs, options, phase2)

LowestLargerResults(inputs, options) ==
    LET order  == LowestLargerOrder(inputs, options)
        index  == LowestLargerIndex(inputs, options)
        phase1 == AddThenTestLoop(inputs, options,
                      Reverse(SubSeq(order, 1, index)), SweepStart)
        phase2 == IF ~Reached(options, phase1.accumulated_value, phase1.estimated_fee)
                  THEN AddThenTestLoop(inputs, options,
                           SubSeq(order, index + 1, Len(order)), phase1)
                  ELSE phase1
    IN  SweepResults("lowestlarger", inputs, options, phase2)


(***************************************************************************)
(* State                                                                   *)
(***************************************************************************)
VARIABLES
    inputs,           \* the caller's candidate list (read-only)
    options,          \* the caller's CoinSelectionOpt (read-only)
    tries_budget,     \* the tries ceiling select_coin_bnb starts bnb with
    pc,               \* "idle", "bnb" (search running) or "done"
    impl,             \* which select_coin_bnb runs: "main", "main2", "barebones"
    sorted_inputs,    \* select_coin_bnb's candidate indices by descending value
    stack,            \* the call stack of bnb, innermost invocation last
    selected_inputs,  \* the Vec<usize> all bnb invocations push to and pop from
    bnb_tries,        \* barebones.rs: the counter all invocations decrement
    expansions,       \* invocations that got past the prune/match entry checks
    ret,              \* the Option<Vec<usize>> the last finished invocation returned
    result            \* what the selector call returned

vars ==
    <<inputs, options, tries_budget, pc, impl, sorted_inputs, stack, selected_inputs, bnb_tries,
      expansions, ret, result>>

(***************************************************************************)
(* Branch and Bound                                                        *)
(***************************************************************************)
Impls == {"main", "main2", "barebones"}

Pending == [kind |-> "Pending", v |-> <<>>]

RetNone == [kind |-> "None", v |-> <<>>]

RetSome(sel) == [kind |-> "Some", v |-> sel]

\* One invocation of bnb: its by-value arguments, where it stands ("entry",
\* or waiting for its "first" or "second" recursive call), the branch order it
\* drew, and the content of selected_inputs when it was entered.
Frame(acc_eff_value, depth, bnp_tries, sel) ==
    [acc_eff_value |-> acc_eff_value, depth |-> depth, bnp_tries |-> bnp_tries,
     at |-> "entry", include_first |-> FALSE, entry_selected |-> sel]

target_for_match(opt) ==
    opt.target_value + calculate_fee(opt.base_weight, opt.target_feerate)
        + opt.cost_per_output

match_range(opt) == opt.cost_per_input + opt.cost_per_output

\* sort_by_key(Reverse(value)): original indices by descending value, stable
InputsInDescValue(ins) == SortedByKey([i \in 1 .. Len(ins) |-> 0 - ins[i].value])

\* a - b on u32.  A negative v stands for the wrapped value 2^32 + v;
\* underflow says that the subtraction went below zero.
U32Sub(a, b) == [v |-> a - b, underflow |-> a >= 0 /\ a - b < 0]

\* The tries argument of the first recursive call
FirstBranchTries(bnp_tries) == U32Sub(bnp_tries, 1)

\* The tries argument of the second recursive call: main.rs, main2.rs
SecondBranchTriesMain(bnp_tries) == U32Sub(bnp_tries, 1)

SecondBranchTriesMain2(bnp_tries) == U32Sub(bnp_tries, 2)

SecondBranchTries(i, bnp_tries) ==
    IF i = "main2" THEN SecondBranchTriesMain2(bnp_tries)
    ELSE SecondBranchTriesMain(bnp_tries)

Top == stack[Len(stack)]

Caller == SubSeq(stack, 1, Len(stack) - 1)

\* acc_eff_value + effective_value(&inputs_in_desc_value[depth].1, feerate)
WithThis(f) ==
    f.acc_eff_value
        + effective_value(At(inputs, At(sorted_inputs, f.depth)),
                          options.target_feerate)

IncludeChild(f, tries) ==
    Frame(WithThis(f), f.depth + 1, tries,
          Append(selected_inputs, At(sorted_inputs, f.depth)))

\* Mutant of OmitChild: the branch that omits the candidate keeps its value
OmitChildKeepsValue(f, tries, sel) == Frame(WithThis(f), f.depth + 1, tries, sel)

OmitChild(f, tries, sel) == Frame(f.acc_eff_value, f.depth + 1, tries, sel)

\* An arithmetic overflow panic inside bnb ends the whole call
Panic ==
    /\ pc' = "done"
    /\ result' = PanicResult("bnb")
    /\ UNCHANGED <<inputs, options, tries_budget, impl, sorted_inputs, stack, selected_inputs,
                   bnb_tries, ret>>

\* select_coin_bnb up to its call of bnb
select_coin_bnb(i) ==
    /\ pc = "idle"
    /\ pc' = "bnb"
    /\ impl' = i
    /\ sorted_inputs' = InputsInDescValue(inputs)
    /\ selected_inputs' = <<>>
    /\ bnb_tries' = tries_budget
    /\ stack' = <<Frame(0, 0, tries_budget, <<>>)>>
    /\ ret' = Pending
    /\ UNCHANGED <<inputs, options, tries_budget, expansions, result>>

\* bnb, the two entry checks: overshoot returns None, a match returns the stack
bnb_entry_checks ==
    /\ pc = "bnb" /\ stack # <<>> /\ Top.at = "entry"
    /\ Top.acc_eff_value >= target_for_match(options)
    /\ ret' = IF Top.acc_eff_value > target_for_match(options) + match_range(options)
              THEN RetNone
              ELSE RetSome(selected_inputs)
    /\ stack' = Caller
    /\ UNCHANGED <<inputs, options, tries_budget, pc, impl, sorted_inputs, selected_inputs,
                   bnb_tries, expansions, result>>

\* bnb past the entry checks: the budget and depth test, then the coin flip and
\* the first recursive call.  barebones.rs decrements the shared counter first.
bnb_expand ==
    /\ pc = "bnb" /\ stack # <<>> /\ Top.at = "entry"
    /\ Top.acc_eff_value < target_for_match(options)
    /\ LET f    == Top
           dec  == IF impl = "barebones" THEN U32Sub(bnb_tries, 1)
                   ELSE [v |-> bnb_tries, underflow |-> FALSE]
           left == IF impl = "barebones" THEN dec.v ELSE f.bnp_tries
           next == IF impl = "barebones" THEN [v |-> 0, underflow |-> FALSE]
                   ELSE FirstBranchTries(f.bnp_tries)
       IN  \/ /\ dec.underflow
              /\ expansions' = expansions + 1
              /\ Panic
           \/ /\ expansions' = expansions + 1
              /\ bnb_tries' = dec.v
              /\ IF left = 0 \/ f.depth >= Len(inputs)
                 THEN /\ ret' = RetNone
                      /\ stack' = Caller
                      /\ UNCHANGED selected_inputs
                 ELSE \E include_first \in BOOLEAN :
                      LET me == [f EXCEPT !.at = "first",
                                          !.include_first = include_first]
                      IN  /\ ret' = Pending
                          /\ IF include_first
                             THEN /\ selected_inputs' = IncludeChild(f, next.v).entry_selected
                                  /\ stack' = Append(Append(Caller, me),
                                                     IncludeChild(f, next.v))
                             ELSE /\ UNCHANGED selected_inputs
                                  /\ stack' = Append(Append(Caller, me),
                                                     OmitChild(f, next.v, selected_inputs))
              /\ UNCHANGED <<inputs, options, tries_budget, pc, impl, sorted_inputs, result>>

\* bnb after a recursive call returned Some: hand the match up
bnb_match_found ==
    /\ pc = "bnb" /\ stack # <<>> /\ Top.at \in {"first", "second"}
    /\ ret.kind = "Some"
    /\ stack' = Caller
    /\ UNCHANGED <<inputs, options, tries_budget, pc, impl, sorted_inputs, selected_inputs,
                   bnb_tries, expansions, ret, result>>

\* bnb after its first recursive call returned None: undo the speculative push
\* (include-first) or make it (omit-first), then the second recursive call
bnb_second_branch ==
    /\ pc = "bnb" /\ stack # <<>> /\ Top.at = "first"
    /\ ret.kind = "None"
    /\ LET f    == Top
           me   == [f EXCEPT !.at = "second"]
           next == IF impl = "barebones" THEN [v |-> 0, underflow |-> FALSE]
                   ELSE SecondBranchTries(impl, f.bnp_tries)
           sel  == SubSeq(selected_inputs, 1, Len(selected_inputs) - 1)
       IN  \/ /\ next.underflow
              /\ UNCHANGED expansions
              /\ Panic
           \/ /\ ret' = Pending
              /\ IF f.include_first
                 THEN /\ selected_inputs' = sel
                      /\ stack' = Append(Append(Caller, me), OmitChild(f, next.v, sel))
                 ELSE /\ selected_inputs' = IncludeChild(f, next.v).entry_selected
                      /\ stack' = Append(Append(Caller, me), IncludeChild(f, next.v))
              /\ UNCHANGED <<inputs, options, tries_budget, pc, impl, sorted_inputs, bnb_tries,
                             expansions, result>>

\* Mutant of bnb_no_match: the push of the omit-first order is never popped
bnb_no_match_NoPop ==
    /\ pc = "bnb" /\ stack # <<>> /\ Top.at = "second"
    /\ ret.kind = "None"
    /\ stack' = Caller
    /\ UNCHANGED <<inputs, options, tries_budget, pc, impl, sorted_inputs, selected_inputs,
                   bnb_tries, expansions, ret, result>>

\* bnb after its second recursive call returned None: return None, popping the
\* push of the omit-first order
bnb_no_match ==
    /\ pc = "bnb" /\ stack # <<>> /\ Top.at = "second"
    /\ ret.kind = "None"
    /\ selected_inputs' = IF Top.include_first THEN selected_inputs
                          ELSE SubSeq(selected_inputs, 1, Len(selected_inputs) - 1)
    /\ stack' = Caller
    /\ UNCHANGED <<inputs, options, tries_budget, pc, impl, sorted_inputs, bnb_tries, expansions,
                   ret, result>>

\* select_coin_bnb, `Some(selected_coin) =>`: the waste is computed with an
\* estimated fee of 0
BnbMatchResults(i, ins, opt, selected_coin, sel) ==
    LET accumulated_value  == SumValue(ins, selected_coin)
        accumulated_weight == SumWeight(ins, selected_coin)
        waste == IF i = "main2"
                 THEN calculate_waste_main2(ins, sel, opt, accumulated_value,
                                            accumulated_weight, 0)
                 ELSE calculate_waste(ins, sel, opt, accumulated_value,
                                      accumulated_weight, 0)
    IN  OkResults("bnb", selected_coin, waste, accumulated_value,
                  accumulated_weight, 0)

\* Mutant of BnbNoMatchMain: no fall-back to the Single Random Draw
BnbNoMatchMainNoFallback(ins, opt) == {ErrResult("bnb", "NoSolutionFound")}

\* select_coin_bnb, `None =>` in main.rs: a Single Random Draw with a fresh rng
BnbNoMatchMain(ins, opt) ==
    UNION {SrdResults("bnb", ins, opt, p) : p \in Shuffles(ins)}

\* select_coin_bnb, `None =>` in main2.rs and barebones.rs
BnbNoMatchMain2(ins, opt) == {ErrResult("bnb", "NoSolutionFound")}

BnbNoMatchResults(i, ins, opt) ==
    IF i = "main" THEN BnbNoMatchMain(ins, opt) ELSE BnbNoMatchMain2(ins, opt)

\* select_coin_bnb from the return of bnb to its own return
select_coin_bnb_return ==
    /\ pc = "bnb" /\ stack = <<>> /\ ret.kind # "Pending"
    /\ pc' = "done"
    /\ result' \in IF ret.kind = "Some"
                   THEN BnbMatchResults(impl, inputs, options, ret.v, selected_inputs)
                   ELSE BnbNoMatchResults(impl, inputs, options)
    /\ UNCHANGED <<inputs, options, tries_budget, impl, sorted_inputs, stack, selected_inputs,
                   bnb_tries, expansions, ret>>

(***************************************************************************)
(* The heuristic selector calls                                            *)
(***************************************************************************)
Unchanged_search ==
    UNCHANGED <<inputs, options, tries_budget, impl, sorted_inputs, stack, selected_inputs,
                bnb_tries, expansions, ret>>

select_coin_fifo ==
    /\ pc = "idle"
    /\ pc' = "done"
    /\ result' \in FifoResults(inputs, options)
    /\ Unchanged_search

select_coin_srd ==
    /\ pc = "idle"
    /\ pc' = "done"
    /\ \E randomized_inputs \in Shuffles(inputs) :
           result' \in SrdResults("srd", inputs, options, randomized_inputs)
    /\ Unchanged_search

select_coin_lowestlarger ==
    /\ pc = "idle"
    /\ pc' = "done"
    /\ result' \in LowestLargerResults(inputs, options)
    /\ Unchanged_search


(***************************************************************************)
(* Inputs.  The candidates are lists of at most MaxInputs groups; the      *)
(* options are a few profiles over every target up to MaxTarget.  The      *)
(* fixtures of the source's tests are initial states as well.              *)
(***************************************************************************)
MaxInputs == 3

MaxTarget == 3

MaxTries == 3

\* let bnb_tries = 1000000
BnbTries == 1000000

\* f32 feerates: 0.5 and 0.25 are exact; 0.33 and 0.4 are the nearest f32
Rate050 == [m |-> 1, k |-> 1]

Rate025 == [m |-> 1, k |-> 2]

Rate033 == [m |-> 11072963, k |-> 25]

Rate040 == [m |-> 13421773, k |-> 25]

OutputGroup(value, weight, creation_sequence) ==
    [value |-> value, weight |-> weight, creation_sequence |-> creation_sequence]

SeqsUpTo(n, S) == UNION {[1 .. k -> S] : k \in 0 .. n}

\* At feerate 0.5 the first group costs more than it is worth (fee 2, value 1).
GenericGroups ==
    {OutputGroup(1, 4, None), OutputGroup(1, 0, Some(1)), OutputGroup(3, 2, Some(2)),
     OutputGroup(2, 0, None)}

GenericProfiles ==
    {[target_value |-> 0, target_feerate |-> Rate050, long_term_feerate |-> None,
      min_absolute_fee |-> 0, base_weight |-> 0, drain_weight |-> 0, drain_cost |-> 0,
      cost_per_input |-> 0, cost_per_output |-> 0, min_drain_value |-> 0,
      excess_strategy |-> "ToFee"],
     [target_value |-> 0, target_feerate |-> Rate050,
      long_term_feerate |-> Some(Rate025),
      min_absolute_fee |-> 2, base_weight |-> 2, drain_weight |-> 2, drain_cost |-> 3,
      cost_per_input |-> 1, cost_per_output |-> 1, min_drain_value |-> 1,
      excess_strategy |-> "ToDrain"],
     [target_value |-> 0, target_feerate |-> Rate050,
      long_term_feerate |-> Some(Rate025),
      min_absolute_fee |-> 0, base_weight |-> 0, drain_weight |-> 0, drain_cost |-> 3,
      cost_per_input |-> 1, cost_per_output |-> 0, min_drain_value |-> 0,
      excess_strategy |-> "ToRecipient"]}

GenericOptions ==
    {[p EXCEPT !.target_value = t] : p \in GenericProfiles, t \in 0 .. MaxTarget}

\* main.rs, mod test
setup_options(target_value) ==
    [target_value |-> target_value, target_feerate |-> Rate050,
     long_term_feerate |-> None, min_absolute_fee |-> 0, base_weight |-> 10,
     drain_weight |-> 50, drain_cost |-> 10, cost_per_input |-> 20,
     cost_per_output |-> 10, min_drain_value |-> 500, excess_strategy |-> "ToDrain"]

setup_basic_output_groups ==
    <<OutputGroup(1000, 100, None), OutputGroup(2000, 200, None),
      OutputGroup(3000, 300, None)>>

setup_output_groups_withsequence ==
    <<OutputGroup(1000, 100, Some(1)), OutputGroup(2000, 200, Some(5000)),
      OutputGroup(3000, 300, Some(1001))>>

\* main2.rs
setup_options_main2(target_value) ==
    [target_value |-> target_value, target_feerate |-> Rate033,
     long_term_feerate |-> Some(Rate040), min_absolute_fee |-> 0, base_weight |-> 10,
     drain_weight |-> 50, drain_cost |-> 10, cost_per_input |-> 20,
     cost_per_output |-> 10, min_drain_value |-> 500, excess_strategy |-> "ToDrain"]

\* The candidate lists of the tests of main.rs and main2.rs (at most 4 groups)
TestInputs ==
    {setup_basic_output_groups,
     setup_output_groups_withsequence,
     <<OutputGroup(2000, 200, Some(1)), OutputGroup(5000000, 200, Some(5000)),
       OutputGroup(9000000, 300, Some(1001)), OutputGroup(270, 10, Some(1000))>>,
     <<OutputGroup(1000, 100, None), OutputGroup(2000, 200, None),
       OutputGroup(2000, 200, None)>>,
     <<OutputGroup(1000, 100, None), OutputGroup(1500, 150, None),
       OutputGroup(2000, 200, None)>>,
     <<OutputGroup(2000, 200, None), OutputGroup(3000, 300, None),
       OutputGroup(3000, 300, None)>>,
     <<OutputGroup(5000, 500, None)>>,
     <<OutputGroup(1000, 100, None)>>}

TestTargets == {500, 2000, 2500, 5000, 7000, 14000000}

TestOptions ==
    {setup_options(t) : t \in TestTargets} \cup {setup_options_main2(t) : t \in TestTargets}

\* main.rs, test_bnb_exact_one_solution: `values`, selected with setup_options(5730)
bnb_exact_one_solution_values ==
    <<OutputGroup(55000, 500, None), OutputGroup(400, 200, None),
      OutputGroup(40000, 300, None), OutputGroup(25000, 100, None),
      OutputGroup(35000, 150, None), OutputGroup(600, 250, None),
      OutputGroup(30000, 120, None), OutputGroup(5000, 50, None)>>

\* main.rs, test_srd_multiple_solutions: `values`, drawn with setup_options(93000)
srd_multiple_solutions_values ==
    <<OutputGroup(55000, 500, None), OutputGroup(40000, 200, None),
      OutputGroup(40000, 300, None), OutputGroup(25000, 100, None),
      OutputGroup(35000, 150, None), OutputGroup(60000, 250, None),
      OutputGroup(30000, 120, None), OutputGroup(5000, 50, None)>>

\* Candidates and targets on which a small tries ceiling runs out
BudgetGroups == {OutputGroup(1, 0, None), OutputGroup(2, 0, Some(1))}

BudgetOptions ==
    {[p EXCEPT !.target_value = t] : p \in GenericProfiles, t \in {MaxTarget, 2 * MaxTarget + 1}}

Init ==
    /\ \/ /\ inputs \in SeqsUpTo(MaxInputs, GenericGroups)
          /\ options \in GenericOptions
          /\ tries_budget = BnbTries
       \/ /\ inputs \in TestInputs
          /\ options \in TestOptions
          /\ tries_budget = BnbTries
       \/ /\ inputs = bnb_exact_one_solution_values
          /\ options = setup_options(5730)
          /\ tries_budget = BnbTries
       \/ /\ inputs \in SeqsUpTo(MaxInputs, BudgetGroups)
          /\ options \in BudgetOptions
          /\ tries_budget \in 1 .. MaxTries
    /\ pc = "idle"
    /\ impl = "main"
    /\ sorted_inputs = <<>>
    /\ stack = <<>>
    /\ selected_inputs = <<>>
    /\ bnb_tries = 0
    /\ expansions = 0
    /\ ret = Pending
    /\ result = NoResult

Next ==
    \/ \E i \in Impls : select_coin_bnb(i)
    \/ bnb_entry_checks
    \/ bnb_expand
    \/ bnb_match_found
    \/ bnb_second_branch
    \/ bnb_no_match
    \/ select_coin_bnb_return
    \/ select_coin_fifo
    \/ select_coin_srd
    \/ select_coin_lowestlarger

Spec == Init /\ [][Next]_vars


(***************************************************************************)
(* Properties                                                              *)
(***************************************************************************)
Returned(algos) == pc = "done" /\ result.algo \in algos

ReturnedOk(algos) == Returned(algos) /\ result.status = "Ok"

Heuristics == {"fifo", "srd", "lowestlarger"}

RECURSIVE SumEffectiveValue(_, _, _)
SumEffectiveValue(ins, sel, feerate) ==
    IF sel = <<>> THEN 0
    ELSE effective_value(At(ins, Head(sel)), feerate)
             + SumEffectiveValue(ins, Tail(sel), feerate)

RECURSIVE SumValueOfSet(_, _)
SumValueOfSet(ins, S) ==
    IF S = {} THEN 0
    ELSE LET i == CHOOSE x \in S : TRUE
         IN  At(ins, i).value + SumValueOfSet(ins, S \ {i})

TotalValue(ins) == SumValueOfSet(ins, Indices(ins))

\* The threshold a selection has to clear, from the returned indices alone
Threshold(ins, opt, sel) ==
    opt.target_value + opt.min_drain_value
        + Max(calculate_fee(SumWeight(ins, sel), opt.target_feerate),
              opt.min_absolute_fee)

\* C1: whenever a selector returns Ok, every returned index is an index into
\* the original candidate list and no index is returned twice.
C1_IndexValidity ==
    ReturnedOk(Heuristics \cup {"bnb"}) =>
        LET sel == result.selected_inputs
        IN  /\ \A p \in DOMAIN sel : sel[p] \in Indices(inputs)
            /\ \A p, q \in DOMAIN sel : p # q => sel[p] # sel[q]

\* C1 witness: Lowest-Larger returned candidates of both of its phases, in an
\* order that is not the order of the original list.
C1_Witness ==
    /\ ReturnedOk({"lowestlarger"})
    /\ Len(result.selected_inputs) >= 2
    /\ LowestLargerIndex(inputs, options) \in 1 .. (Len(inputs) - 1)
    /\ Len(result.selected_inputs) > LowestLargerIndex(inputs, options)
    /\ result.selected_inputs[1] > result.selected_inputs[2]

\* C2 as claimed: whenever select_coin_bnb returns Ok, the effective values of
\* the returned candidates sum to a value inside
\* [target_for_match, target_for_match + match_range].
C2_BnbWindow ==
    ReturnedOk({"bnb"}) =>
        LET sum == SumEffectiveValue(inputs, result.selected_inputs,
                                     options.target_feerate)
        IN  /\ sum >= target_for_match(options)
            /\ sum <= target_for_match(options) + match_range(options)

\* C3: whenever select_coin_srd or select_coin_lowestlarger returns Ok, the
\* values of the returned candidates sum to at least target_value +
\* min_drain_value + max(fee of their summed weight, min_absolute_fee).
C3_HeuristicThreshold ==
    ReturnedOk({"srd", "lowestlarger"}) =>
        SumValue(inputs, result.selected_inputs)
            >= Threshold(inputs, options, result.selected_inputs)

\* C3 witness: a Single Random Draw returned two or more candidates whose fee
\* exceeds the minimum absolute fee and which clear the threshold only now.
C3_Witness ==
    /\ ReturnedOk({"srd"})
    /\ Len(result.selected_inputs) >= 2
    /\ calculate_fee(SumWeight(inputs, result.selected_inputs), options.target_feerate)
           > options.min_absolute_fee
    /\ SumValue(inputs, result.selected_inputs)
           = Threshold(inputs, options, result.selected_inputs)

\* C4 as claimed: whenever select_coin_fifo returns Ok, the values of the
\* returned candidates sum to at least target_value + max(fee of the weight of
\* all of them, min_absolute_fee) + min_drain_value, and that fee is the
\* estimated fee handed to calculate_waste.
C4_FifoThreshold ==
    ReturnedOk({"fifo"}) =>
        /\ SumValue(inputs, result.selected_inputs)
               >= Threshold(inputs, options, result.selected_inputs)
        /\ result.estimated_fee
               = calculate_fee(SumWeight(inputs, result.selected_inputs),
                               options.target_feerate)

\* C5 as claimed: whenever select_coin_bnb returns Ok, the returned candidates
\* cover the target and the fee of the selection:
\* sum(value) - fee(sum(weight)) >= target_value.
C5_BnbCoversTargetAndFee ==
    ReturnedOk({"bnb"}) =>
        SumValue(inputs, result.selected_inputs)
            >= options.target_value
                 + calculate_fee(SumWeight(inputs, result.selected_inputs),
                                 options.target_feerate)

\* The bnb search of this call ran to its end and returned None
SearchEndedWithoutMatch ==
    Returned({"bnb"}) /\ stack = <<>> /\ ret.kind = "None"

\* C6 as claimed: whenever the search ends without a match, select_coin_bnb
\* returns Err(NoSolutionFound).
C6_NoMatchIsNoSolutionFound ==
    SearchEndedWithoutMatch =>
        result.status = "Err" /\ result.error = "NoSolutionFound"

\* C7: in main.rs, when the values of all candidates sum to less than
\* target_value, select_coin_bnb returns Err(InsufficientFunds).
C7_MainBnbInsufficientFunds ==
    (Returned({"bnb"}) /\ impl = "main" /\ TotalValue(inputs) < options.target_value) =>
        result.status = "Err" /\ result.error = "InsufficientFunds"

\* C7 witness: test_bnb_no_solutions (three candidates totalling 6000, target
\* 7000) has returned from main.rs's select_coin_bnb.
C7_Witness ==
    /\ Returned({"bnb"}) /\ impl = "main"
    /\ inputs = setup_basic_output_groups
    /\ options = setup_options(7000)
    /\ TotalValue(inputs) = 6000
    /\ expansions > 1

C9_Main2ExactMatch ==
    (/\ Returned({"bnb"}) /\ impl = "main2"
     /\ options = setup_options_main2(options.target_value)
     /\ \E S \in SUBSET Indices(inputs) :
            SumValueOfSet(inputs, S) = options.target_value) =>
        /\ result.status = "Ok"
        /\ result.selected_inputs # <<>>
        /\ SumValue(inputs, result.selected_inputs) = options.target_value

\* C10 as claimed: during one select_coin_bnb call the number of bnb
\* invocations that get past the entry checks never exceeds the tries ceiling.
C10_TriesBoundSearch == expansions <= tries_budget

\* The options of a second call that differs in target_value alone
WithTarget(opt, t) == [opt EXCEPT !.target_value = t]

\* The targets above the one of the call at hand that the second call is given
LargerTargets(opt) == (opt.target_value + 1) .. (opt.target_value + MaxTarget)

InsufficientFunds(r) == r.status = "Err" /\ r.error = "InsufficientFunds"

\* C11 as claimed: whenever select_coin_lowestlarger returns
\* Err(InsufficientFunds) for a target T, it returns Err(InsufficientFunds) for
\* the same candidates and options with any larger target T'.
C11_LowestLargerMonotonicInsufficiency ==
    (Returned({"lowestlarger"}) /\ InsufficientFunds(result)) =>
        \A t \in LargerTargets(options) :
            \A r \in LowestLargerResults(inputs, WithTarget(options, t)) :
                InsufficientFunds(r)

\* C12 as claimed: whenever some run of select_coin_srd returns
\* Err(InsufficientFunds) for a target T, every run with the same candidates
\* and options and any larger target T' returns Err(InsufficientFunds),
\* whatever permutation it draws.
C12_SrdMonotonicInsufficiency ==
    (Returned({"srd"}) /\ InsufficientFunds(result)) =>
        \A t \in LargerTargets(options) :
            \A randomized_inputs \in Shuffles(inputs) :
                \A r \in SrdResults("srd", inputs, WithTarget(options, t), randomized_inputs) :
                    InsufficientFunds(r)

AllSelectors == Heuristics \cup {"bnb"}

\* The waste evaluator of the file the returned call ran in, as a function of
\* the accumulated value and of the other arguments the call handed to it
ResultWaste(accumulated_value) ==
    IF result.algo = "bnb" /\ impl = "main2"
    THEN calculate_waste_main2(inputs, result.selected_inputs, options, accumulated_value,
             result.accumulated_weight, result.estimated_fee).waste
    ELSE calculate_waste(inputs, result.selected_inputs, options, accumulated_value,
             result.accumulated_weight, result.estimated_fee).waste

\* The excess/change term as the spec states it
ExcessTerm(opt, accumulated_value, estimated_fee) ==
    IF opt.excess_strategy = "ToDrain" THEN opt.drain_cost
    ELSE accumulated_value - opt.target_value - estimated_fee

\* C13: in every Ok result the waste is the evaluator's value on the call's
\* arguments; under ToDrain it does not change with accumulated_value and its
\* excess/change term is drain_cost; under ToFee and ToRecipient it grows by
\* exactly the growth of accumulated_value; and with long_term_feerate absent
\* it equals drain_cost, respectively accumulated_value - target_value -
\* estimated_fee, alone.
C13_ExcessTerm ==
    ReturnedOk(AllSelectors) =>
        /\ result.waste = ResultWaste(result.accumulated_value)
        /\ \A d \in 1 .. MaxTarget :
               ResultWaste(result.accumulated_value + d) - result.waste
                   = IF options.excess_strategy = "ToDrain" THEN 0 ELSE d
        /\ options.long_term_feerate = None =>
               result.waste = ExcessTerm(options, result.accumulated_value,
                                         result.estimated_fee)

\* C13 witness: an Ok result under ToRecipient with a long-term feerate and a
\* surplus over target and fee, and so a positive excess term.
C13_Witness ==
    /\ ReturnedOk(AllSelectors)
    /\ options.excess_strategy = "ToRecipient"
    /\ options.long_term_feerate # None
    /\ result.estimated_fee > 0
    /\ result.accumulated_value > options.target_value + result.estimated_fee

\* The feerate-spread form of the long-term term: ceil(accumulated_weight *
\* (target_feerate - long_term_feerate)), 0 when the spread is negative
SpreadTerm(opt, accumulated_weight) ==
    IF F32Less(opt.target_feerate, opt.long_term_feerate[1]) THEN 0
    ELSE F32Ceil(F32MulNat(accumulated_weight,
             F32Sub(opt.target_feerate, opt.long_term_feerate[1])))

\* C14 as claimed: in every Ok result of every version with a long-term
\* feerate supplied, the waste less the excess/change term is
\* ceil(accumulated_weight * (target_feerate - long_term_feerate)) clamped at 0.
C14_LongTermTermIsFeerateSpread ==
    (ReturnedOk(AllSelectors) /\ options.long_term_feerate # None) =>
        result.waste - ExcessTerm(options, result.accumulated_value, result.estimated_fee)
            = SpreadTerm(options, result.accumulated_weight)

\* C15: no selector call ends in the underflow of calculate_waste's excess
\* subtraction: every Ok result under ToFee or ToRecipient was evaluated with
\* accumulated_value >= target_value + estimated_fee, and every Ok result
\* carries a waste that is a non-negative integer (no wrapped value).
C15_WasteNonNegative ==
    /\ (Returned(AllSelectors) /\ stack = <<>>) => result.status # "Panic"
    /\ ReturnedOk(AllSelectors) =>
           /\ options.excess_strategy # "ToDrain" =>
                  result.accumulated_value >= options.target_value + result.estimated_fee
           /\ result.waste >= 0

\* C15 witness: an Ok result under ToFee whose accumulated value is exactly
\* target_value plus a positive estimated fee (excess 0).
C15_Witness ==
    /\ ReturnedOk(AllSelectors)
    /\ options.excess_strategy = "ToFee"
    /\ result.estimated_fee > 0
    /\ result.accumulated_value = options.target_value + result.estimated_fee

\* max(0, value - fee(weight, feerate)) on the integers
SaturatedValue(output, feerate) ==
    Max(0, output.value - calculate_fee(output.weight, feerate))

\* The invocation of bnb that called the one on top of the stack, and whether
\* that call is the one that includes the caller's candidate
Parent == stack[Len(stack) - 1]

TopIncludes ==
    (Parent.at = "first" /\ Parent.include_first)
        \/ (Parent.at = "second" /\ ~Parent.include_first)

\* C16: effective_value(group, feerate) is max(0, value - fee(weight, feerate))
\* for every candidate, and so an invocation of bnb that includes a candidate
\* is entered with the caller's accumulated effective value plus
\* max(0, value - fee) of that candidate, never less than the caller's.
C16_EffectiveValueSaturates ==
    /\ pc = "idle" =>
           \A i \in Indices(inputs) :
               effective_value(At(inputs, i), options.target_feerate)
                   = SaturatedValue(At(inputs, i), options.target_feerate)
    /\ (pc = "bnb" /\ Len(stack) >= 2 /\ Top.at = "entry" /\ TopIncludes) =>
           Top.acc_eff_value
               = Parent.acc_eff_value
                   + SaturatedValue(At(inputs, At(sorted_inputs, Parent.depth)),
                                    options.target_feerate)

\* C16 witness: bnb enters an invocation having pushed a candidate whose fee
\* exceeds its value and a candidate worth more than its fee.
C16_Witness ==
    /\ pc = "bnb" /\ stack # <<>> /\ Top.at = "entry"
    /\ \E p, q \in DOMAIN Top.entry_selected :
           LET a == At(inputs, Top.entry_selected[p])
               b == At(inputs, Top.entry_selected[q])
           IN  /\ calculate_fee(a.weight, options.target_feerate) > a.value
               /\ calculate_fee(b.weight, options.target_feerate) > 0
               /\ calculate_fee(b.weight, options.target_feerate) < b.value

\* Candidate i comes before candidate j in ascending creation_sequence,
\* candidates of equal sequence in the order of the original list
SequenceBefore(ins, i, j) ==
    LET ki == OptionKey(At(ins, i).creation_sequence)
        kj == OptionKey(At(ins, j).creation_sequence)
    IN  ki < kj \/ (ki = kj /\ i < j)

\* C17: whenever select_coin_fifo returns Ok, the selection lists its indices
\* in ascending creation_sequence (ties in original order) and every selected
\* candidate comes before every candidate left unselected: the selection is a
\* prefix of the candidates sorted by creation_sequence.
C17_FifoPrefixOfSequenceOrder ==
    ReturnedOk({"fifo"}) =>
        LET sel == result.selected_inputs
            chosen == {sel[p] : p \in DOMAIN sel}
        IN  /\ \A p, q \in DOMAIN sel : p < q => SequenceBefore(inputs, sel[p], sel[q])
            /\ \A i \in chosen : \A j \in Indices(inputs) \ chosen :
                   SequenceBefore(inputs, i, j)

\* C17 witness: on the candidates with sequences 1, 5000 and 1001,
\* select_coin_fifo returned the oldest two, [0, 2], leaving out index 1.
C17_Witness ==
    /\ ReturnedOk({"fifo"})
    /\ inputs = setup_output_groups_withsequence
    /\ result.selected_inputs = <<0, 2>>


(***************************************************************************)
(* Full-width arithmetic.  The selectors add u64 values and u32 weights    *)
(* with the plain operators `+` and `+=`, which panic on overflow in a     *)
(* build with overflow checks and wrap around otherwise.  A u64 is a       *)
(* sequence of four limbs of 16 bits, a u32 of two, least significant      *)
(* first, so that every value of the type has its own representation.      *)
(***************************************************************************)
Limb == Pow2(16)

\* n < 2^31 as a u32 and as a u64
U32Of(n) == <<n % Limb, n \div Limb>>

U64Of(n) == <<n % Limb, n \div Limb, 0, 0>>

\* u32::MAX, u64::MAX
U32Max == <<Limb - 1, Limb - 1>>

U64Max == <<Limb - 1, Limb - 1, Limb - 1, Limb - 1>>

\* The limbs of a + b + carry, the carry out of the top limb last
RECURSIVE AddLimbs(_, _, _)
AddLimbs(a, b, carry) ==
    IF a = <<>> THEN <<carry>>
    ELSE LET sum == Head(a) + Head(b) + carry
         IN  <<sum % Limb>> \o AddLimbs(Tail(a), Tail(b), sum \div Limb)

\* a + b on the width of a and b: the wrapped sum and whether it overflowed
WideAdd(a, b) ==
    LET r == AddLimbs(a, b, 0)
    IN  [v |-> SubSeq(r, 1, Len(a)), overflow |-> r[Len(r)] = 1]

\* The limbs of a - b - borrow, the borrow out of the top limb last
RECURSIVE SubLimbs(_, _, _)
SubLimbs(a, b, borrow) ==
    IF a = <<>> THEN <<borrow>>
    ELSE LET d == Head(a) - Head(b) - borrow
         IN  IF d < 0 THEN <<d + Limb>> \o SubLimbs(Tail(a), Tail(b), 1)
             ELSE <<d>> \o SubLimbs(Tail(a), Tail(b), 0)

\* a - b on the width of a and b: the wrapped difference and whether it
\* went below zero
WideSub(a, b) ==
    LET r == SubLimbs(a, b, 0)
    IN  [v |-> SubSeq(r, 1, Len(a)), overflow |-> r[Len(r)] = 1]

RECURSIVE WideLess(_, _)
WideLess(a, b) ==
    IF a = <<>> THEN FALSE
    ELSE LET n == Len(a)
         IN  IF a[n] # b[n] THEN a[n] < b[n]
             ELSE WideLess(SubSeq(a, 1, n - 1), SubSeq(b, 1, n - 1))

WideMax(a, b) == IF WideLess(a, b) THEN b ELSE a

\* calculate_fee on a full-width weight, for the feerates 0.0 and 1.0:
\* `weight as f32` rounds the weight to 24 significant bits, ties to even;
\* the product with 1.0 and its ceiling are that value, the product with 0.0
\* is 0.
calculate_fee_wide(weight, rate) ==
    LET lo   == weight[1]
        hi   == weight[2]
        s    == BitLen(hi) + 16 - MantissaBits
        q    == hi * Pow2(16 - s) + lo \div Pow2(s)
        rem  == lo % Pow2(s)
        half == Pow2(s - 1)
        up   == rem > half \/ (rem = half /\ q % 2 = 1)
        m    == IF up THEN q + 1 ELSE q
        top  == m \div Pow2(16 - s)
    IN  IF rate.m = 0 THEN U64Of(0)
        ELSE IF s <= 0 THEN <<lo, hi, 0, 0>>
        ELSE <<(m % Pow2(16 - s)) * Pow2(s), top % Limb, top \div Limb, 0>>

\* value.saturating_sub(fee) on full-width values
effective_value_wide(output, feerate) ==
    LET d == WideSub(output.value, calculate_fee_wide(output.weight, feerate))
    IN  IF d.overflow THEN U64Of(0) ELSE d.v

\* (a + b) + c on u64: the wrapped sum and whether either addition overflowed
WideSum3(a, b, c) ==
    LET ab == WideAdd(a, b)
        r  == WideAdd(ab.v, c)
    IN  [v |-> r.v, overflow |-> ab.overflow \/ r.overflow]

\* The state of a sweep in full width; `wrapped` says that some addition or
\* subtraction so far left the range of its type.
SweepStartWide ==
    [accumulated_value |-> U64Of(0), accumulated_weight |-> U32Of(0),
     selected_inputs |-> <<>>, estimated_fee |-> U64Of(0), wrapped |-> FALSE]

\* target_value + min_drain_value + estimated_fee.max(min_absolute_fee)
ThresholdWide(opt, estimated_fee) ==
    WideSum3(opt.target_value, opt.min_drain_value,
             WideMax(estimated_fee, opt.min_absolute_fee))

\* select_coin_fifo's threshold adds in another order:
\* target_value + estimated_fees.max(min_absolute_fee) + min_drain_value
FifoThresholdWide(opt, estimated_fee) ==
    WideSum3(opt.target_value, WideMax(estimated_fee, opt.min_absolute_fee),
             opt.min_drain_value)

\* The loop of select_coin_srd and of select_coin_lowestlarger in full width
RECURSIVE AddThenTestLoopWide(_, _, _, _)
AddThenTestLoopWide(ins, opt, order, st) ==
    IF order = <<>> THEN st
    ELSE LET v   == WideAdd(st.accumulated_value, At(ins, Head(order)).value)
             w   == WideAdd(st.accumulated_weight, At(ins, Head(order)).weight)
             fee == calculate_fee_wide(w.v, opt.target_feerate)
             thr == ThresholdWide(opt, fee)
             nst == [accumulated_value |-> v.v, accumulated_weight |-> w.v,
                     selected_inputs |-> Append(st.selected_inputs, Head(order)),
                     estimated_fee |-> fee,
                     wrapped |-> st.wrapped \/ v.overflow \/ w.overflow \/ thr.overflow]
         IN  IF ~WideLess(v.v, thr.v) THEN nst
             ELSE AddThenTestLoopWide(ins, opt, Tail(order), nst)

\* select_coin_fifo's loop in full width
RECURSIVE FifoLoopWide(_, _, _, _)
FifoLoopWide(ins, opt, order, st) ==
    IF order = <<>> THEN st
    ELSE LET fee == calculate_fee_wide(st.accumulated_weight, opt.target_feerate)
             thr == FifoThresholdWide(opt, fee)
             fst == [st EXCEPT !.estimated_fee = fee, !.wrapped = @ \/ thr.overflow]
             v   == WideAdd(st.accumulated_value, At(ins, Head(order)).value)
             w   == WideAdd(st.accumulated_weight, At(ins, Head(order)).weight)
         IN  IF ~WideLess(st.accumulated_value, thr.v) THEN fst
             ELSE FifoLoopWide(ins, opt, Tail(order),
                     [fst EXCEPT
                        !.accumulated_value = v.v,
                        !.accumulated_weight = w.v,
                        !.selected_inputs = Append(@, Head(order)),
                        !.wrapped = @ \/ v.overflow \/ w.overflow])

\* calculate_waste of main.rs in full width, for opt without a long-term
\* feerate: [waste, overflow]
calculate_waste_wide(opt, accumulated_value, estimated_fee) ==
    LET d1 == WideSub(accumulated_value, opt.target_value)
        d2 == WideSub(d1.v, estimated_fee)
    IN  IF opt.excess_strategy # "ToDrain"
        THEN [waste |-> d2.v, overflow |-> d1.overflow \/ d2.overflow]
        ELSE [waste |-> opt.drain_cost, overflow |-> FALSE]

\* The result record in full width; `wrapped` says that the call's arithmetic
\* left the range of a type on the way to this result.
NoResultWide ==
    [status |-> "None", algo |-> "", error |-> "", selected_inputs |-> <<>>,
     waste |-> U64Of(0), accumulated_value |-> U64Of(0),
     accumulated_weight |-> U32Of(0), estimated_fee |-> U64Of(0), wrapped |-> FALSE]

\* The outcomes of a call whose arithmetic left the range of a type: the
\* panic of a build with overflow checks, or the result the wrapped values
\* lead to.
OutcomesWide(algo, r, wrapped) ==
    IF wrapped
    THEN {[NoResultWide EXCEPT !.status = "Panic", !.algo = algo, !.wrapped = TRUE],
          [r EXCEPT !.wrapped = TRUE]}
    ELSE {r}

\* The end of every heuristic in full width: the test against the threshold
\* thr, then Err(InsufficientFunds) or Ok with the waste
SweepResultsWide(algo, opt, st, thr, wrapped_before) ==
    LET w   == calculate_waste_wide(opt, st.accumulated_value, st.estimated_fee)
        ok  == [NoResultWide EXCEPT !.status = "Ok", !.algo = algo,
                   !.selected_inputs = st.selected_inputs, !.waste = w.waste,
                   !.accumulated_value = st.accumulated_value,
                   !.accumulated_weight = st.accumulated_weight,
                   !.estimated_fee = st.estimated_fee]
        err == [NoResultWide EXCEPT !.status = "Err", !.algo = algo,
                   !.error = "InsufficientFunds"]
    IN  IF WideLess(st.accumulated_value, thr.v)
        THEN OutcomesWide(algo, err, wrapped_before \/ st.wrapped \/ thr.overflow)
        ELSE OutcomesWide(algo, ok,
                 wrapped_before \/ st.wrapped \/ thr.overflow \/ w.overflow)

FifoResultsWide(ins, opt) ==
    LET st == FifoLoopWide(ins, opt, FifoOrder(ins), SweepStartWide)
    IN  SweepResultsWide("fifo", opt, st, FifoThresholdWide(opt, st.estimated_fee), FALSE)

\* select_coin_srd in full width; necessary_target is computed and never read
SrdResultsWide(algo, ins, opt, randomized_inputs) ==
    LET necessary_target ==
            WideSum3(opt.target_value, opt.min_drain_value,
                     calculate_fee_wide(opt.base_weight, opt.target_feerate))
        st == AddThenTestLoopWide(ins, opt, randomized_inputs, SweepStartWide)
    IN  SweepResultsWide(algo, opt, st, ThresholdWide(opt, st.estimated_fee),
                         necessary_target.overflow)

\* sort_by_key on u64 keys in full width (stable)
SortedByKeyWide(keys) ==
    LET n == Len(keys)
        Rank(i) == Cardinality({j \in 0 .. (n - 1) :
                       \/ WideLess(At(keys, j), At(keys, i))
                       \/ (At(keys, j) = At(keys, i) /\ j < i)})
    IN  [p \in 1 .. n |-> CHOOSE i \in 0 .. (n - 1) : Rank(i) = p - 1]

\* The positions at which partition_point's binary search calls the predicate
RECURSIVE Probes(_, _, _)
Probes(pred, left, right) ==
    IF left >= right THEN {}
    ELSE LET mid == left + (right - left) \div 2
         IN  {mid} \cup (IF At(pred, mid) THEN Probes(pred, mid + 1, right)
                         ELSE Probes(pred, left, mid))

\* select_coin_lowestlarger in full width
LowestLargerResultsWide(ins, opt) ==
    LET target == WideAdd(opt.target_value, opt.min_drain_value)
        order  == SortedByKeyWide([i \in 1 .. Len(ins) |->
                      effective_value_wide(ins[i], opt.target_feerate)])
        bound  == [p \in 1 .. Len(order) |->
                      WideAdd(target.v, calculate_fee_wide(At(ins, order[p]).weight,
                                                           opt.target_feerate))]
        pred   == [p \in 1 .. Len(order) |->
                      ~WideLess(bound[p].v, At(ins, order[p]).value)]
        index  == PartitionPoint(pred, 0, Len(order))
        probed == \E p \in Probes(pred, 0, Len(order)) : At(bound, p).overflow
        phase1 == AddThenTestLoopWide(ins, opt, Reverse(SubSeq(order, 1, index)),
                                      SweepStartWide)
        thr1   == ThresholdWide(opt, phase1.estimated_fee)
        phase2 == IF WideLess(phase1.accumulated_value, thr1.v)
                  THEN AddThenTestLoopWide(ins, opt,
                           SubSeq(order, index + 1, Len(order)), phase1)
                  ELSE phase1
    IN  SweepResultsWide("lowestlarger", opt, phase2,
            ThresholdWide(opt, phase2.estimated_fee),
            target.overflow \/ probed \/ thr1.overflow)

select_coin_fifo_wide ==
    /\ pc = "idle"
    /\ pc' = "done"
    /\ result' \in FifoResultsWide(inputs, options)
    /\ Unchanged_search

select_coin_srd_wide ==
    /\ pc = "idle"
    /\ pc' = "done"
    /\ \E randomized_inputs \in Shuffles(inputs) :
           result' \in SrdResultsWide("srd", inputs, options, randomized_inputs)
    /\ Unchanged_search

select_coin_lowestlarger_wide ==
    /\ pc = "idle"
    /\ pc' = "done"
    /\ result' \in LowestLargerResultsWide(inputs, options)
    /\ Unchanged_search

\* Candidates and options at the ends of their integer types
WideMaxInputs == 2

Rate000 == [m |-> 0, k |-> 0]

Rate100 == [m |-> 1, k |-> 0]

WideValues == {U64Of(1), <<0, 0, 0, Limb \div 2>>, U64Max}

WideWeights == {U32Of(1), <<0, Limb \div 2>>, U32Max}

WideGroups == {OutputGroup(v, w, None) : v \in WideValues, w \in WideWeights}

WideOptions ==
    {[target_value |-> t, target_feerate |-> r, long_term_feerate |-> None,
      min_absolute_fee |-> U64Of(0), base_weight |-> U32Of(0), drain_weight |-> U32Of(0),
      drain_cost |-> U64Of(0), cost_per_input |-> U64Of(0), cost_per_output |-> U64Of(0),
      min_drain_value |-> d, excess_strategy |-> e] :
        t \in {U64Of(1), U64Max}, r \in {Rate000, Rate100}, d \in {U64Of(0), U64Of(1)},
        e \in {"ToFee", "ToDrain"}}

InitWide ==
    /\ inputs \in SeqsUpTo(WideMaxInputs, WideGroups)
    /\ options \in WideOptions
    /\ tries_budget = BnbTries
    /\ pc = "idle"
    /\ impl = "main"
    /\ sorted_inputs = <<>>
    /\ stack = <<>>
    /\ selected_inputs = <<>>
    /\ bnb_tries = 0
    /\ expansions = 0
    /\ ret = Pending
    /\ result = NoResultWide

NextWide ==
    \/ select_coin_fifo_wide
    \/ select_coin_srd_wide
    \/ select_coin_lowestlarger_wide

SpecWide == InitWide /\ [][NextWide]_vars

\* C18 as claimed: on candidates and options whose fields each fit their
\* integer type, every heuristic call ends in Ok or Err, and no addition or
\* subtraction on the way left the range of its type.
C18_NoPanicNoWrap ==
    pc = "done" => (result.status \in {"Ok", "Err"} /\ ~result.wrapped)

\* C19 as claimed: whenever a selector returns Ok, selected_inputs holds at
\* least one index.
C19_SelectionNeverEmpty ==
    ReturnedOk(AllSelectors) => result.selected_inputs # <<>>

\* The least amount the heuristics' threshold asks for, whatever is selected
LeastAmount(opt) == opt.target_value + opt.min_drain_value + opt.min_absolute_fee

\* C19 amended: an Ok selection holds at least one index whenever the amount
\* to reach is positive: target_value + min_drain_value + min_absolute_fee > 0
\* for the heuristics (and for select_coin_bnb of main.rs, which can answer
\* with a Single Random Draw), target_for_match > 0 for select_coin_bnb.
C19_NonEmptyWhenAmountPositive ==
    /\ (ReturnedOk(Heuristics) /\ LeastAmount(options) > 0) =>
           result.selected_inputs # <<>>
    /\ (/\ ReturnedOk({"bnb"})
        /\ target_for_match(options) > 0
        /\ impl = "main" => LeastAmount(options) > 0) =>
           result.selected_inputs # <<>>

\* C19 witness: with target_value 0 and a positive amount to reach, both
\* select_coin_fifo and select_coin_bnb can have returned a selection.
C19_Witness ==
    /\ ReturnedOk({"fifo", "bnb"})
    /\ options.target_value = 0
    /\ LeastAmount(options) > 0
    /\ target_for_match(options) > 0
    /\ result.selected_inputs # <<>>

\* The index sets whose effective values sum into the match window
RECURSIVE SumEffectiveValueOfSet(_, _, _)
SumEffectiveValueOfSet(ins, S, feerate) ==
    IF S = {} THEN 0
    ELSE LET i == CHOOSE x \in S : TRUE
         IN  effective_value(At(ins, i), feerate)
                 + SumEffectiveValueOfSet(ins, S \ {i}, feerate)

Matches(ins, opt) ==
    {S \in SUBSET Indices(ins) :
        LET sum == SumEffectiveValueOfSet(ins, S, opt.target_feerate)
        IN  /\ sum >= target_for_match(opt)
            /\ sum <= target_for_match(opt) + match_range(opt)}

\* A tries ceiling no search over these candidates can use up: the search has
\* fewer than 2^(n+1) invocations, and a path at most n levels of at most 2
BudgetSuffices == tries_budget >= Pow2(Len(inputs) + 1)

\* C20: when some subset of the candidates fits the match window and the
\* tries ceiling cannot run out, select_coin_bnb returns, for every outcome
\* of the coin flips, Ok with the match of bnb, and the returned indices are
\* a subset that fits the window: the only such subset when there is one.
C20_BnbComplete ==
    (Returned({"bnb"}) /\ BudgetSuffices) =>
        LET fitting == Matches(inputs, options)
        IN  fitting # {} =>
                /\ ret.kind = "Some"
                /\ result.status = "Ok"
                /\ {result.selected_inputs[p] : p \in DOMAIN result.selected_inputs}
                       \in fitting

\* C20 witness: test_bnb_exact_one_solution.  Of the eight candidates only
\* {7, 5, 1} fits the window of target 5730; select_coin_bnb of main.rs
\* returned [7, 5, 1] after a search that had to back out of a branch.
C20_Witness ==
    /\ ReturnedOk({"bnb"}) /\ impl = "main"
    /\ inputs = bnb_exact_one_solution_values
    /\ options = setup_options(5730)
    /\ Matches(inputs, options) = {{1, 5, 7}}
    /\ result.selected_inputs = <<7, 5, 1>>
    /\ expansions > Len(inputs) + 1

\* An invocation of bnb returns None in this step
ReturnsNone == pc = "bnb" /\ stack # <<>> /\ stack' = Caller /\ ret'.kind = "None"

\* C21: every invocation of bnb that returns None (overshoot, depth or budget
\* exhausted, both branches failed) leaves selected_inputs as it was when the
\* invocation was entered; so the stack is empty when the outermost
\* invocation fails.
C21_BacktrackingRestoresStack ==
    [][ReturnsNone =>
           /\ selected_inputs' = Top.entry_selected
           /\ stack' = <<>> => selected_inputs' = <<>>]_vars

\* C21 witness: the outermost invocation returned None after both of its
\* branches had been searched, one of them with a speculative push, by
\* invocations that went past the entry checks themselves.
C21_Witness ==
    /\ pc = "bnb" /\ stack = <<>> /\ ret.kind = "None"
    /\ expansions >= 3
    /\ selected_inputs = <<>>

\* C22 as claimed: no subtraction on a tries counter goes below zero, in
\* barebones.rs on the counter all invocations share and in main2.rs on the
\* tries argument of the second branch (a negative number is the model's
\* wrapped value 2^32 + v; the build with overflow checks panics instead).
C22_TriesNeverUnderflow ==
    pc \in {"bnb", "done"} =>
        /\ impl = "barebones" => bnb_tries >= 0
        /\ impl = "main2" => \A p \in DOMAIN stack : stack[p].bnp_tries >= 0

\* C23 as claimed: select_coin_fifo takes a candidate without a
\* creation_sequence only when every candidate that has one is taken already.
C23_NoneSequenceLast ==
    ReturnedOk({"fifo"}) =>
        LET sel == result.selected_inputs
        IN  \A p \in DOMAIN sel :
                At(inputs, sel[p]).creation_sequence = None =>
                    \A j \in Indices(inputs) :
                        At(inputs, j).creation_sequence # None =>
                            \E q \in 1 .. (p - 1) : sel[q] = j

\* The first n indices of a list
Prefix(sel, n) == SubSeq(sel, 1, n)

\* The candidates of sel clear the threshold of their own summed weight
Clears(ins, opt, sel) == SumValue(ins, sel) >= Threshold(ins, opt, sel)

\* C24: select_coin_srd stops as soon as the threshold clears.  For every
\* ordering the shuffle can draw, an Ok selection is a prefix of that
\* ordering; and no proper non-empty prefix of a returned selection clears
\* target_value + min_drain_value + max(fee of its summed weight,
\* min_absolute_fee).
C24_SrdStopsAtFirstClearingPrefix ==
    /\ pc = "idle" =>
           \A randomized_inputs \in Shuffles(inputs) :
               \A r \in SrdResults("srd", inputs, options, randomized_inputs) :
                   r.status = "Ok" =>
                       r.selected_inputs
                           = Prefix(randomized_inputs, Len(r.selected_inputs))
    /\ ReturnedOk({"srd"}) =>
           \A n \in 1 .. (Len(result.selected_inputs) - 1) :
               ~Clears(inputs, options, Prefix(result.selected_inputs, n))

\* C24 witness: a Single Random Draw returned three candidates and left one
\* undrawn; neither its first candidate nor its first two clear the threshold.
C24_Witness ==
    /\ ReturnedOk({"srd"})
    /\ Len(result.selected_inputs) = 3
    /\ Len(inputs) > 3
    /\ ~Clears(inputs, options, Prefix(result.selected_inputs, 1))
    /\ ~Clears(inputs, options, Prefix(result.selected_inputs, 2))
    /\ Clears(inputs, options, result.selected_inputs)

(***************************************************************************)
(* The Single Random Draw on its own: the calls of select_coin_srd on the  *)
(* candidates of test_srd_multiple_solutions and on the small lists.       *)
(***************************************************************************)
InitSrd ==
    /\ \/ /\ inputs = srd_multiple_solutions_values
          /\ options = setup_options(93000)
       \/ /\ inputs \in SeqsUpTo(MaxInputs, GenericGroups)
          /\ options \in GenericOptions
    /\ tries_budget = BnbTries
    /\ pc = "idle"
    /\ impl = "main"
    /\ sorted_inputs = <<>>
    /\ stack = <<>>
    /\ selected_inputs = <<>>
    /\ bnb_tries = 0
    /\ expansions = 0
    /\ ret = Pending
    /\ result = NoResult

NextSrd == select_coin_srd

SpecSrd == InitSrd /\ [][NextSrd]_vars

\* The selections select_coin_srd can return Ok with, over all its draws
SrdSelections ==
    {r.selected_inputs :
        r \in {x \in UNION {SrdResults("srd", inputs, options, q) : q \in Shuffles(inputs)} :
                   x.status = "Ok"}}

\* n is the length of the shortest non-empty prefix of p that clears the threshold
ShortestClearing(ins, opt, p, n) ==
    /\ Clears(ins, opt, Prefix(p, n))
    /\ \A m \in 1 .. (n - 1) : ~Clears(ins, opt, Prefix(p, m))

\* valid_combinations of test_srd_multiple_solutions
valid_combinations == {<<0, 1>>, <<0, 2>>, <<1, 3, 6>>, <<2, 3, 6>>}

\* C25: before a call of select_coin_srd, for every ordering of the
\* candidates the shortest prefix of it that clears the threshold is a
\* selection the call can return; and on the eight candidates of the test,
\* with target_value 93000, the call can return each of [0, 1], [0, 2],
\* [1, 3, 6] and [2, 3, 6].
C25_EveryOrderingCanBeDrawn ==
    pc = "idle" =>
        LET reachable == SrdSelections
        IN  /\ \A p \in Orderings(Indices(inputs)) : \A n \in 1 .. Len(p) :
                   ShortestClearing(inputs, options, p, n) => Prefix(p, n) \in reachable
            /\ inputs = srd_multiple_solutions_values =>
                   \A sel \in valid_combinations : sel \in reachable

\* C25 witness: on the eight candidates of the test a call of select_coin_srd
\* returned [2, 3, 6].
C25_Witness ==
    /\ ReturnedOk({"srd"})
    /\ inputs = srd_multiple_solutions_values
    /\ options = setup_options(93000)
    /\ result.selected_inputs = <<2, 3, 6>>

\* value <= target + fee(weight, target_feerate), target = target_value +
\* min_drain_value: candidate i belongs to the smaller-or-equal group
SmallerOrEqual(ins, opt, i) ==
    At(ins, i).value
        <= opt.target_value + opt.min_drain_value
               + calculate_fee(At(ins, i).weight, opt.target_feerate)

\* C26: in a call of select_coin_lowestlarger, with k the index the binary
\* search returns over the candidates sorted by effective value, every
\* candidate at a sorted position below k has value <= target + fee(weight)
\* and every candidate at position k or above has value > target +
\* fee(weight), candidates of effective value 0 included.
C26_BoundaryPartitionsSortedList ==
    Returned({"lowestlarger"}) =>
        LET order == LowestLargerOrder(inputs, options)
            k     == LowestLargerIndex(inputs, options)
        IN  \A p \in Indices(order) :
                SmallerOrEqual(inputs, options, At(order, p)) <=> p < k

\* C26 witness: select_coin_lowestlarger returned on a list that has
\* candidates on both sides of the boundary, among them one whose fee exceeds
\* its value (effective value 0).
C26_Witness ==
    /\ Returned({"lowestlarger"})
    /\ LowestLargerIndex(inputs, options) \in 1 .. (Len(inputs) - 1)
    /\ \E i \in Indices(inputs) :
           /\ calculate_fee(At(inputs, i).weight, options.target_feerate) > At(inputs, i).value
           /\ effective_value(At(inputs, i), options.target_feerate) = 0

\* The selected candidates of the smaller-or-equal group, of the larger group
SelectedSmaller(ins, opt, sel) ==
    {p \in DOMAIN sel : SmallerOrEqual(ins, opt, sel[p])}

SelectedLarger(ins, opt, sel) ==
    {p \in DOMAIN sel : ~SmallerOrEqual(ins, opt, sel[p])}

EffectiveValueAt(i) == effective_value(At(inputs, i), options.target_feerate)

\* C27: whenever select_coin_lowestlarger returns Ok, the selection lists
\* candidates of the smaller-or-equal group first, in descending effective
\* value, and candidates of the larger group after them, in ascending
\* effective value; and if it holds a candidate of the larger group it holds
\* every candidate of the smaller-or-equal group, which together did not
\* reach the threshold.
C27_PhaseOrdering ==
    ReturnedOk({"lowestlarger"}) =>
        LET sel     == result.selected_inputs
            smaller == SelectedSmaller(inputs, options, sel)
            larger  == SelectedLarger(inputs, options, sel)
        IN  /\ \A p \in smaller : \A q \in larger : p < q
            /\ \A p, q \in smaller : p < q => EffectiveValueAt(sel[p]) >= EffectiveValueAt(sel[q])
            /\ \A p, q \in larger : p < q => EffectiveValueAt(sel[p]) <= EffectiveValueAt(sel[q])
            /\ larger # {} =>
                   /\ \A i \in Indices(inputs) :
                          SmallerOrEqual(inputs, options, i) => \E p \in smaller : sel[p] = i
                   /\ ~Clears(inputs, options, Prefix(sel, Cardinality(smaller)))

\* C27 witness: select_coin_lowestlarger returned two candidates of the
\* smaller-or-equal group of different effective value, then a candidate of
\* the larger group, and left another larger candidate unselected.
C27_Witness ==
    /\ ReturnedOk({"lowestlarger"})
    /\ LET sel == result.selected_inputs
       IN  /\ Len(sel) = 3
           /\ SelectedSmaller(inputs, options, sel) = {1, 2}
           /\ EffectiveValueAt(sel[1]) > EffectiveValueAt(sel[2])
           /\ Len(inputs) > 3

\* The set of the indices of a selection
IndexSet(sel) == {sel[p] : p \in DOMAIN sel}

\* C28 as claimed: the waste of an Ok result depends on the selected index
\* set alone.  Whenever a selector returns Ok, every Ok result a Single Random
\* Draw can give on the same candidates and options with the same set of
\* indices carries the same waste, and the fee the selector handed to
\* calculate_waste is the fee of the accumulated weight of its selection.
C28_WasteFunctionOfIndexSet ==
    ReturnedOk(AllSelectors) =>
        /\ result.estimated_fee
               = calculate_fee(SumWeight(inputs, result.selected_inputs),
                               options.target_feerate)
        /\ \A randomized_inputs \in Shuffles(inputs) :
               \A r \in SrdResults("srd", inputs, options, randomized_inputs) :
                   (/\ r.status = "Ok"
                    /\ IndexSet(r.selected_inputs) = IndexSet(result.selected_inputs)) =>
                       r.waste = result.waste

====
